---- MODULE Spec2Model ----
(***************************************************************************)
(* Model of src/vorple/prompt.ts: the list of input filters and the        *)
(* asynchronous applyInputFilters reducer, and the command and keypress    *)
(* queues replayed on the engine's expectCommand / expectKeypress events.  *)
(*                                                                         *)
(* Code between two awaits of applyInputFilters runs without interruption  *)
(* (single-threaded event loop), so one action models one such stretch.    *)
(* One applyInputFilters call is followed at a time; addInputFilter and    *)
(* removeInputFilter may run while it is suspended.                        *)
(***************************************************************************)
EXTENDS Integers, Sequences, FiniteSets, TLC

\* ---------------------------------------------------------------- bounds
MaxFilters == 2
MaxCmds == 2
MaxKeys == 2
\* longest filter list where only the registrations are followed
MaxRegistered == 3

\* ---------------------------------------------------------------- inputs
FilterIds == {"f", "g"}
Strings == {"a", "b"}
Cmds == {"look", "wait"}
\* a key is a string, modelled as the sequence of its character codes
Keys == {<<120>>, <<121, 122>>}
\* what a caller may pass as queueCommand's silent argument
SilentArgs == {"true", "omitted", "zero", "one"}
InputModes == {"getkey", "getline"}

VARIABLES
    inputFilters,   \* prompt.ts:36
    commandQueue,   \* prompt.ts:37
    keyQueue,       \* prompt.ts:38
    blocked,        \* layout: whether the UI is blocked
    pc,             \* position of the applyInputFilters call
    i,              \* loop index of applyInputFilters (1-based)
    originalInput,  \* parameter of applyInputFilters
    finalInput,     \* local of applyInputFilters
    returned,       \* value the call returned
    errors,         \* messages passed to error() by the call
    invoked,        \* history: the filter invocations of the call
    outcomes,       \* history: how each invocation ended (how) and its value (v)
    pending,        \* history: invocations whose result is awaited
    listChanged,    \* history: filter list changed since the call began
    listening,      \* init() has registered the event listeners
    lineReady,      \* engine: haven prompt isReady()
    inputMode,      \* engine: haven input getMode()
    \* histories, each restarted by the clear of its queue; a call is kept with
    \* the number of the queueCommand / queueKeypress call that made it (by),
    \* 0 when an event listener made it
    submitted,      \* calls of sendCommand made by submit
    sent,           \* calls of keypress.send
    cmdQueued,      \* arguments of the queueCommand calls
    keysQueued,     \* arguments of the queueKeypress calls
    cmdDropped,     \* history: the last clearCommandQueue dropped queued commands
    keysDropped,    \* history: the last clearKeyQueue dropped queued keys
    \* observations, recorded where a specification follows them
    lastCall,       \* the latest addInputFilter / removeInputFilter / remover call
    removers,       \* filters whose remover addInputFilter has returned
    touched         \* filters added or removed since applyInputFilters began

filterVars == <<inputFilters, blocked, pc, i, originalInput, finalInput, returned,
                errors, invoked, outcomes, pending, listChanged>>
queueVars == <<commandQueue, keyQueue, listening, lineReady, inputMode, submitted,
               sent, cmdQueued, keysQueued, cmdDropped, keysDropped>>
observerVars == <<lastCall, removers, touched>>
vars == <<filterVars, queueVars, observerVars>>

\* ---------------------------------------------------------------- values
\* A JavaScript value a filter can produce: its kind and its content.
Val(t, v) == [t |-> t, v |-> v]
None == Val("none", "")
JsTrue == Val("boolean", "true")
JsFalse == Val("boolean", "false")
JsUndefined == Val("undefined", "")
JsNull == Val("null", "")
Str(s) == Val("string", s)
\* Values a filter may return directly or through a promise. An awaited
\* value is never a thenable; Val("object", "then") is an object that has a
\* "then" property which is not callable, Val("object", "plain") one without.
FilterValues ==
    {JsTrue, JsFalse, JsUndefined, JsNull, Val("number", "7"),
     Val("object", "then"), Val("object", "plain")} \cup {Str(s) : s \in Strings}

\* how one filter invocation ended: how is "value" (returned v), "promise"
\* (returned a promise settled with v) or "throw" (threw when invoked)
Outcome(how, v) == [how |-> how, v |-> v]

\* typeof
TypeOf(x) == IF x.t = "null" THEN "object" ELSE x.t

\* ---------------------------------------------------------------- layout, debug
\* layout.block() / layout.unblock(): the state of the UI block after the call
Block(b) == TRUE
Unblock(b) == FALSE

\* debug.error() throws after reporting
ErrorThrows == TRUE

PromiseMsg == <<"Input filter promise resolved into another promise, which is not allowed", "">>
TypeMsg(type) == <<"Input filter returned a value of type ", type>>

\* ---------------------------------------------------------------- applyInputFilters
\* the finally block after the await (prompt.ts:111-113)
AfterAwait(b) == Unblock(b)

\* variant: the final unblock is missing
FinalUnblock_Missing(b) == b

\* the unblock before the final return (prompt.ts:145)
FinalUnblock(b) == Unblock(b)

\* variant: the loop index is not advanced
NextIndex_Stuck(idx) == idx

\* ++i (prompt.ts:98)
NextIndex(idx) == idx + 1

\* variant: the filter is handed the original input instead of the current one
Invocation_Original(idx, fin, orig) ==
    [filter |-> inputFilters[idx], input |-> orig,
     meta |-> [input |-> orig, original |-> orig, type |-> "line"]]

\* the argument list of one filter invocation (prompt.ts:99-104)
Invocation(idx, fin, orig) ==
    [filter |-> inputFilters[idx], input |-> fin,
     meta |-> [input |-> fin, original |-> orig, type |-> "line"]]

\* variant: a value of a wrong type is skipped without a report
SwitchDefault_Silent(filtered, fin) ==
    IF TypeOf(filtered) = "string"
    THEN [ctl |-> "continue", input |-> filtered.v, errors |-> <<>>]
    ELSE [ctl |-> "continue", input |-> fin, errors |-> <<>>]

\* the default branch of the switch (prompt.ts:126-141)
SwitchDefault(filtered, fin) ==
    LET type == TypeOf(filtered)
        e1 == IF type = "object" /\ filtered.v = "then" THEN <<PromiseMsg>> ELSE <<>>
    IN  IF e1 # <<>> /\ ErrorThrows
        THEN [ctl |-> "throw", input |-> fin, errors |-> e1]
        ELSE IF type = "string"
        THEN [ctl |-> "continue", input |-> filtered.v, errors |-> e1]
        ELSE [ctl |-> IF ErrorThrows THEN "throw" ELSE "continue",
              input |-> fin, errors |-> e1 \o <<TypeMsg(type)>>]

\* variant: false is treated like true
Switch_FalseContinues(filtered, fin) ==
    IF filtered \in {JsUndefined, JsNull, JsTrue, JsFalse}
    THEN [ctl |-> "continue", input |-> fin, errors |-> <<>>]
    ELSE SwitchDefault(filtered, fin)

\* switch( filtered ) (prompt.ts:115-142): what the loop does next, the
\* new finalInput and the messages given to error()
Switch(filtered, fin) ==
    IF filtered \in {JsUndefined, JsNull, JsTrue}
    THEN [ctl |-> "continue", input |-> fin, errors |-> <<>>]
    ELSE IF filtered = JsFalse
    THEN [ctl |-> "return", input |-> fin, errors |-> <<>>]
    ELSE SwitchDefault(filtered, fin)

\* The for loop from its condition at index idx up to the next await, the
\* return or a throw of the filter (prompt.ts:98-104, 145-147).
RunLoop(idx, fin, orig, b, inv, outs) ==
    IF idx <= Len(inputFilters)
    THEN \E how \in {"value", "promise", "throw"} :
            /\ invoked' = Append(inv, Invocation(idx, fin, orig))
            /\ i' = idx
            /\ finalInput' = fin
            /\ blocked' = b
            /\ returned' = None
            /\ IF how = "throw"
               THEN /\ pc' = "failed"
                    /\ pending' = {}
                    /\ outcomes' = Append(outs, Outcome("throw", Val("threw", "")))
               ELSE /\ pc' = "await"
                    /\ pending' = {[n |-> Len(inv) + 1, how |-> how]}
                    /\ outcomes' = outs
    ELSE /\ invoked' = inv
         /\ i' = idx
         /\ finalInput' = fin
         /\ blocked' = FinalUnblock(b)
         /\ returned' = Str(fin)
         /\ pc' = "returned"
         /\ pending' = {}
         /\ outcomes' = outs

\* applyInputFilters( originalInput, meta ) up to its first await (prompt.ts:92-104)
ApplyInputFilters(input) ==
    /\ pc # "await"
    /\ originalInput' = input
    /\ errors' = <<>>
    /\ listChanged' = FALSE
    /\ RunLoop(1, input, input, Block(blocked), <<>>, <<>>)
    /\ UNCHANGED <<inputFilters, queueVars>>

\* the awaited value arrives: finally, switch, and on to the next await
\* (prompt.ts:109-143)
Resolve(v) ==
    /\ pc = "await"
    /\ LET b == AfterAwait(blocked)
           sw == Switch(v, finalInput)
           how == (CHOOSE p \in pending : TRUE).how
           outs == Append(outcomes, Outcome(how, v))
       IN  /\ errors' = errors \o sw.errors
           /\ CASE sw.ctl = "return" ->
                    /\ pc' = "returned"
                    /\ returned' = JsFalse
                    /\ blocked' = b
                    /\ pending' = {}
                    /\ outcomes' = outs
                    /\ UNCHANGED <<i, finalInput, invoked>>
                [] sw.ctl = "throw" ->
                    /\ pc' = "failed"
                    /\ blocked' = b
                    /\ pending' = {}
                    /\ outcomes' = outs
                    /\ UNCHANGED <<i, finalInput, invoked, returned>>
                [] sw.ctl = "continue" ->
                    RunLoop(NextIndex(i), sw.input, originalInput, b, invoked, outs)
    /\ UNCHANGED <<inputFilters, originalInput, listChanged, queueVars>>

\* the awaited promise rejects: finally, then the call fails (prompt.ts:108-113)
Reject ==
    /\ pc = "await"
    /\ \E p \in pending : p.how = "promise"
    /\ pc' = "failed"
    /\ blocked' = AfterAwait(blocked)
    /\ pending' = {}
    /\ outcomes' = Append(outcomes, Outcome("promise", Val("rejected", "")))
    /\ UNCHANGED <<inputFilters, i, originalInput, finalInput, returned, errors,
                   invoked, listChanged, queueVars>>

\* ---------------------------------------------------------------- filter list
\* addInputFilter( filter ) (prompt.ts:79-82)
AddInputFilter(f) ==
    /\ inputFilters' = Append(inputFilters, f)
    /\ listChanged' = TRUE
    /\ UNCHANGED <<blocked, pc, i, originalInput, finalInput, returned, errors,
                   invoked, outcomes, pending, queueVars>>

\* variant: lastIndexOf
IndexOf_Last(s, f) ==
    IF \E k \in 1..Len(s) : s[k] = f
    THEN CHOOSE k \in 1..Len(s) : s[k] = f /\ \A j \in (k + 1)..Len(s) : s[j] # f
    ELSE 0

\* Array.prototype.indexOf, 1-based, 0 when absent
IndexOf(s, f) ==
    IF \E k \in 1..Len(s) : s[k] = f
    THEN CHOOSE k \in 1..Len(s) : s[k] = f /\ \A j \in 1..(k - 1) : s[j] # f
    ELSE 0

\* variant: splice( index ) without its count removes the rest of the list too
RemoveAt_Rest(s, k) == SubSeq(s, 1, k - 1)

\* splice( index, 1 )
RemoveAt(s, k) == SubSeq(s, 1, k - 1) \o SubSeq(s, k + 1, Len(s))

\* removeInputFilter( filter ) (prompt.ts:239-248); the function returned by
\* addInputFilter is this call
RemoveInputFilter(f) ==
    /\ LET index == IndexOf(inputFilters, f)
       IN  IF index = 0
           THEN UNCHANGED <<inputFilters, listChanged>>
           ELSE /\ inputFilters' = RemoveAt(inputFilters, index)
                /\ listChanged' = TRUE
    /\ UNCHANGED <<blocked, pc, i, originalInput, finalInput, returned, errors,
                   invoked, outcomes, pending, queueVars>>

\* the return value of removeInputFilter( filter ) (prompt.ts:242-247)
RemoveReturn(list, f) == IF IndexOf(list, f) = 0 THEN "false" ELSE "true"

\* an observed call: the operation, its argument, the list it found, its
\* return value and, for a remover called right after the addInputFilter
\* that returned it, the list that addInputFilter found (base, else empty)
Call(op, f, before, ret, base) ==
    [op |-> op, f |-> f, before |-> before, ret |-> ret, base |-> base]

\* addInputFilter( filter ), observed: it returns the remover of filter
ObservedAdd(f) ==
    /\ AddInputFilter(f)
    /\ lastCall' = Call("add", f, inputFilters, "remover", <<>>)
    /\ removers' = removers \cup {f}
    /\ touched' = touched \cup {f}

\* removeInputFilter( filter ), observed
ObservedRemove(f) ==
    /\ RemoveInputFilter(f)
    /\ lastCall' = Call("remove", f, inputFilters, RemoveReturn(inputFilters, f), <<>>)
    /\ touched' = IF IndexOf(inputFilters, f) = 0 THEN touched ELSE touched \cup {f}
    /\ UNCHANGED removers

\* () => removeInputFilter( filter ) (prompt.ts:81), the remover of f, observed
CallRemover(f) ==
    /\ f \in removers
    /\ RemoveInputFilter(f)
    /\ lastCall' = Call("remover", f, inputFilters, RemoveReturn(inputFilters, f),
                        IF lastCall.op = "add" /\ lastCall.f = f
                        THEN <<lastCall.before>> ELSE <<>>)
    /\ touched' = IF IndexOf(inputFilters, f) = 0 THEN touched ELSE touched \cup {f}
    /\ UNCHANGED removers

\* applyInputFilters begins, observed
ObservedApply(input) ==
    /\ ApplyInputFilters(input)
    /\ touched' = {}
    /\ UNCHANGED <<lastCall, removers>>

\* ---------------------------------------------------------------- queues
\* silent = false (default parameter) and !!silent (prompt.ts:205-208)
ToBoolean(arg) == arg \in {"true", "one"}

\* the queue entry built by queueCommand (prompt.ts:206-209)
ParserCommand(cmd, silentArg) == [cmd |-> cmd, silent |-> ToBoolean(silentArg)]

\* submit( command, silent ) (prompt.ts:295-302): the sendCommand call it makes
Submit(command, silent) == [command |-> command, silent |-> silent, userAction |-> FALSE]

\* key.charCodeAt( 0 )
CharCodeAt0(key) == key[1]

\* the keypress.send call of runKeyQueue (prompt.ts:64)
KeypressSend(key) == [keyCode |-> CharCodeAt0(key), force |-> TRUE]

\* variant: the head is submitted but stays in the queue
RunCommandQueue_Peek(q) ==
    IF Len(q) > 0
    THEN [queue |-> q, calls |-> <<Submit(Head(q).cmd, Head(q).silent)>>, ret |-> "false"]
    ELSE [queue |-> q, calls |-> <<>>, ret |-> "undefined"]

\* variant: runCommandQueue leaves the queue alone and submits nothing
RunCommandQueue_Idle(q) == [queue |-> q, calls |-> <<>>, ret |-> "undefined"]

\* variant: every queued command is submitted at once
RunCommandQueue_DrainAll(q) ==
    [queue |-> <<>>,
     calls |-> [k \in 1..Len(q) |-> Submit(q[k].cmd, q[k].silent)],
     ret |-> IF Len(q) > 0 THEN "false" ELSE "undefined"]

\* runCommandQueue() (prompt.ts:45-52): the queue it leaves, the submit
\* calls it makes and its return value
RunCommandQueue(q) ==
    IF Len(q) > 0
    THEN [queue |-> Tail(q), calls |-> <<Submit(Head(q).cmd, Head(q).silent)>>,
          ret |-> "false"]
    ELSE [queue |-> q, calls |-> <<>>, ret |-> "undefined"]

\* variant: the newest key is taken (pop instead of shift)
RunKeyQueue_Pop(q) ==
    IF Len(q) > 0
    THEN [queue |-> SubSeq(q, 1, Len(q) - 1), calls |-> <<KeypressSend(q[Len(q)])>>,
          ret |-> "false"]
    ELSE [queue |-> q, calls |-> <<>>, ret |-> "true"]

\* runKeyQueue() (prompt.ts:61-69)
RunKeyQueue(q) ==
    IF Len(q) > 0
    THEN [queue |-> Tail(q), calls |-> <<KeypressSend(Head(q))>>, ret |-> "false"]
    ELSE [queue |-> q, calls |-> <<>>, ret |-> "true"]

\* history entries for the calls made by the n-th queueing call (0: a listener)
Stamp(calls, n) == [k \in 1..Len(calls) |-> [call |-> calls[k], by |-> n]]

\* variant: the clear leaves the head in place
Truncate_KeepHead(q) == IF q = <<>> THEN q ELSE <<Head(q)>>

\* commandQueue.length = 0 / keyQueue.length = 0 (prompt.ts:157, 167)
Truncate(q) == <<>>

\* init() (prompt.ts:188-194)
InitListeners ==
    /\ ~listening
    /\ listening' = TRUE
    /\ UNCHANGED <<filterVars, commandQueue, keyQueue, lineReady, inputMode,
                   submitted, sent, cmdQueued, keysQueued, cmdDropped,
                   keysDropped>>

\* the engine fires expectCommand: the listener runCommandQueue runs
ExpectCommand ==
    /\ listening
    /\ LET r == RunCommandQueue(commandQueue)
       IN  /\ commandQueue' = r.queue
           /\ submitted' = submitted \o Stamp(r.calls, 0)
    /\ UNCHANGED <<filterVars, keyQueue, listening, lineReady, inputMode, sent,
                   cmdQueued, keysQueued, cmdDropped,
                   keysDropped>>

\* variant: the expectKeypress listener takes a queued command along
ExpectKeypress_TakesCommand ==
    /\ listening
    /\ LET r == RunKeyQueue(keyQueue)
       IN  /\ keyQueue' = r.queue
           /\ sent' = sent \o Stamp(r.calls, 0)
    /\ commandQueue' = IF commandQueue = <<>> THEN commandQueue ELSE Tail(commandQueue)
    /\ UNCHANGED <<filterVars, listening, lineReady, inputMode,
                   submitted, cmdQueued, keysQueued, cmdDropped,
                   keysDropped>>

\* the engine fires expectKeypress: the listener runKeyQueue runs
ExpectKeypress ==
    /\ listening
    /\ LET r == RunKeyQueue(keyQueue)
       IN  /\ keyQueue' = r.queue
           /\ sent' = sent \o Stamp(r.calls, 0)
    /\ UNCHANGED <<filterVars, commandQueue, listening, lineReady, inputMode,
                   submitted, cmdQueued, keysQueued, cmdDropped,
                   keysDropped>>

\* variant: queueCommand submits its own command when the line input is ready
QueueCommand_Own(cmd, silentArg) ==
    /\ Len(cmdQueued) < MaxCmds
    /\ cmdQueued' = Append(cmdQueued, [cmd |-> cmd, silent |-> silentArg])
    /\ IF lineReady
       THEN /\ commandQueue' = commandQueue
            /\ submitted' = submitted \o
                    Stamp(<<Submit(cmd, ToBoolean(silentArg))>>, Len(cmdQueued) + 1)
       ELSE /\ commandQueue' = Append(commandQueue, ParserCommand(cmd, silentArg))
            /\ submitted' = submitted
    /\ UNCHANGED <<filterVars, keyQueue, listening, lineReady, inputMode, sent,
                   keysQueued, cmdDropped, keysDropped>>

\* queueCommand( cmd, silent ) (prompt.ts:205-214)
QueueCommand(cmd, silentArg) ==
    /\ Len(cmdQueued) < MaxCmds
    /\ cmdQueued' = Append(cmdQueued, [cmd |-> cmd, silent |-> silentArg])
    /\ LET pushed == Append(commandQueue, ParserCommand(cmd, silentArg))
           r == IF lineReady THEN RunCommandQueue(pushed)
                ELSE [queue |-> pushed, calls |-> <<>>, ret |-> "undefined"]
       IN  /\ commandQueue' = r.queue
           /\ submitted' = submitted \o Stamp(r.calls, Len(cmdQueued) + 1)
    /\ UNCHANGED <<filterVars, keyQueue, listening, lineReady, inputMode, sent,
                   keysQueued, cmdDropped,
                   keysDropped>>

\* queueKeypress( key ) (prompt.ts:224-230)
QueueKeypress(key) ==
    /\ Len(keysQueued) < MaxKeys
    /\ keysQueued' = Append(keysQueued, key)
    /\ LET pushed == Append(keyQueue, key)
           r == IF inputMode = "getkey" THEN RunKeyQueue(pushed)
                ELSE [queue |-> pushed, calls |-> <<>>, ret |-> "true"]
       IN  /\ keyQueue' = r.queue
           /\ sent' = sent \o Stamp(r.calls, Len(keysQueued) + 1)
    /\ UNCHANGED <<filterVars, commandQueue, listening, lineReady, inputMode,
                   submitted, cmdQueued, cmdDropped,
                   keysDropped>>

\* clearCommandQueue() (prompt.ts:156-158)
ClearCommandQueue ==
    /\ commandQueue' = Truncate(commandQueue)
    /\ cmdQueued' = <<>>
    /\ submitted' = <<>>
    /\ cmdDropped' = (commandQueue # <<>>)
    /\ UNCHANGED <<filterVars, keyQueue, listening, lineReady, inputMode,
                   sent, keysQueued, keysDropped>>

\* clearKeyQueue() (prompt.ts:166-168)
ClearKeyQueue ==
    /\ keyQueue' = Truncate(keyQueue)
    /\ keysQueued' = <<>>
    /\ sent' = <<>>
    /\ keysDropped' = (keyQueue # <<>>)
    /\ UNCHANGED <<filterVars, commandQueue, listening, lineReady, inputMode,
                   submitted, cmdQueued, cmdDropped>>

\* the engine's line input becomes ready or busy (haven prompt isReady())
EngineSetReady(b) ==
    /\ lineReady # b
    /\ lineReady' = b
    /\ UNCHANGED <<filterVars, commandQueue, keyQueue, listening, inputMode,
                   submitted, sent, cmdQueued, keysQueued, cmdDropped,
                   keysDropped>>

\* the engine changes its input mode (haven input getMode())
EngineSetMode(m) ==
    /\ inputMode # m
    /\ inputMode' = m
    /\ UNCHANGED <<filterVars, commandQueue, keyQueue, listening, lineReady,
                   submitted, sent, cmdQueued, keysQueued, cmdDropped,
                   keysDropped>>

\* ---------------------------------------------------------------- specifications
Init ==
    /\ inputFilters = <<>>
    /\ commandQueue = <<>>
    /\ keyQueue = <<>>
    /\ blocked = FALSE
    /\ pc = "idle"
    /\ i = 0
    /\ originalInput = ""
    /\ finalInput = ""
    /\ returned = None
    /\ errors = <<>>
    /\ invoked = <<>>
    /\ outcomes = <<>>
    /\ pending = {}
    /\ listChanged = FALSE
    /\ listening = FALSE
    /\ lineReady = FALSE
    /\ inputMode = "getline"
    /\ submitted = <<>>
    /\ sent = <<>>
    /\ cmdQueued = <<>>
    /\ keysQueued = <<>>
    /\ cmdDropped = FALSE
    /\ keysDropped = FALSE
    /\ lastCall = Call("none", "", <<>>, "none", <<>>)
    /\ removers = {}
    /\ touched = {}

\* a step that records no observation
Unobserved == UNCHANGED observerVars

NextFilters ==
    \/ (\E input \in Strings : ApplyInputFilters(input)) /\ Unobserved
    \/ (\E v \in FilterValues : Resolve(v)) /\ Unobserved
    \/ Reject /\ Unobserved
    \/ (\E f \in FilterIds : Len(inputFilters) < MaxFilters /\ AddInputFilter(f)) /\ Unobserved
    \/ (\E f \in FilterIds : RemoveInputFilter(f)) /\ Unobserved

NextCommands ==
    \/ InitListeners /\ Unobserved
    \/ ExpectCommand /\ Unobserved
    \/ (\E cmd \in Cmds, silentArg \in SilentArgs : QueueCommand(cmd, silentArg)) /\ Unobserved
    \/ ClearCommandQueue /\ Unobserved
    \/ (\E b \in BOOLEAN : EngineSetReady(b)) /\ Unobserved

NextKeys ==
    \/ InitListeners /\ Unobserved
    \/ ExpectKeypress /\ Unobserved
    \/ (\E key \in Keys : QueueKeypress(key)) /\ Unobserved
    \/ ClearKeyQueue /\ Unobserved
    \/ (\E m \in InputModes : EngineSetMode(m)) /\ Unobserved

\* both queues, queueCommand called without its silent argument
NextQueues ==
    \/ InitListeners /\ Unobserved
    \/ ExpectCommand /\ Unobserved
    \/ ExpectKeypress /\ Unobserved
    \/ (\E cmd \in Cmds : QueueCommand(cmd, "omitted")) /\ Unobserved
    \/ (\E key \in Keys : QueueKeypress(key)) /\ Unobserved
    \/ ClearCommandQueue /\ Unobserved
    \/ ClearKeyQueue /\ Unobserved
    \/ (\E b \in BOOLEAN : EngineSetReady(b)) /\ Unobserved
    \/ (\E m \in InputModes : EngineSetMode(m)) /\ Unobserved

\* the registrations, with the calls observed; applyInputFilters with one
\* input and filters that return true
NextRegistry ==
    \/ \E f \in FilterIds : Len(inputFilters) < MaxRegistered /\ ObservedAdd(f)
    \/ \E f \in FilterIds : ObservedRemove(f)
    \/ \E f \in FilterIds : CallRemover(f)
    \/ ObservedApply("a")
    \/ Resolve(JsTrue) /\ UNCHANGED observerVars

Next == NextFilters \/ NextCommands \/ NextKeys

\* the input filters alone
SpecFilters == Init /\ [][NextFilters]_vars

\* the command queue alone
SpecCommands == Init /\ [][NextCommands]_vars

\* the keypress queue alone
SpecKeys == Init /\ [][NextKeys]_vars

\* the two queues together
SpecQueues == Init /\ [][NextQueues]_vars

\* one applyInputFilters call at a time while filters are added and removed;
\* the filters return true or a string
NextMutation ==
    \/ \E input \in Strings : ObservedApply(input)
    \/ (\E v \in {JsTrue, Str("b")} : Resolve(v)) /\ UNCHANGED observerVars
    \/ \E f \in FilterIds : Len(inputFilters) < MaxFilters /\ ObservedAdd(f)
    \/ \E f \in FilterIds : ObservedRemove(f)

SpecMutation == Init /\ [][NextMutation]_vars

\* both queues without the clears, one command queued without a silent
\* argument and one key
NextLive ==
    \/ InitListeners /\ Unobserved
    \/ ExpectCommand /\ Unobserved
    \/ ExpectKeypress /\ Unobserved
    \/ QueueCommand("look", "omitted") /\ Unobserved
    \/ QueueKeypress(<<121, 122>>) /\ Unobserved
    \/ (\E b \in BOOLEAN : EngineSetReady(b)) /\ Unobserved
    \/ (\E m \in InputModes : EngineSetMode(m)) /\ Unobserved

\* the engine keeps firing expectCommand and expectKeypress
SpecLive ==
    /\ Init
    /\ [][NextLive]_vars
    /\ WF_vars(ExpectCommand /\ Unobserved)
    /\ WF_vars(ExpectKeypress /\ Unobserved)

\* the filters and both queues together: one input, one filter, one command,
\* one key, filters that return true, the engine in line input mode
NextStores ==
    \/ ApplyInputFilters("a") /\ Unobserved
    \/ Resolve(JsTrue) /\ Unobserved
    \/ (Len(inputFilters) < MaxFilters /\ AddInputFilter("f")) /\ Unobserved
    \/ RemoveInputFilter("f") /\ Unobserved
    \/ InitListeners /\ Unobserved
    \/ ExpectCommand /\ Unobserved
    \/ ExpectKeypress /\ Unobserved
    \/ QueueCommand("look", "omitted") /\ Unobserved
    \/ QueueKeypress(<<120>>) /\ Unobserved
    \/ (\E b \in BOOLEAN : EngineSetReady(b)) /\ Unobserved

SpecStores == Init /\ [][NextStores]_vars

\* the filter list and its callers
SpecRegistry == Init /\ [][NextRegistry]_vars

\* the whole module
Spec == Init /\ [][Next]_vars

\* ---------------------------------------------------------------- properties
\* the values of the first n outcomes
Values(n) == [k \in 1..n |-> outcomes[k].v]

\* the last string among the values vs, or orig when there is none
LastString(vs, orig) ==
    IF \E k \in 1..Len(vs) : vs[k].t = "string"
    THEN vs[CHOOSE k \in 1..Len(vs) :
                vs[k].t = "string" /\ \A j \in (k + 1)..Len(vs) : vs[j].t # "string"].v
    ELSE orig

\* a value the switch has no case for and that is not a string
WrongType(v) ==
    v.t \in {"number", "object"}

\* C1: while a filter of the call has been invoked and its result is awaited,
\* the UI is blocked (stated as the claim has it; the code unblocks after the
\* first filter).
C1_BlockedWhileFiltersRun ==
    pc = "await" => blocked

\* C2: a call of applyInputFilters that has returned a value (the final input,
\* or false) has left the UI unblocked.
C2_UnblockedOnReturn ==
    pc = "returned" => ~blocked

\* the call returned false early, after its first filter, with filters left
C2_Witness ==
    /\ pc = "returned"
    /\ returned = JsFalse
    /\ Len(invoked) = 1
    /\ Len(inputFilters) = 2
    /\ ~blocked

\* C3: filters are invoked one at a time in the order of the list: at most one
\* invocation is pending, it is the latest one, every earlier invocation has
\* ended, and while the list is unchanged the k-th invocation is of the k-th
\* registered filter; a registration goes to the tail of the list.
C3_Inv ==
    /\ Cardinality(pending) <= 1
    /\ \A p \in pending : p.n = Len(invoked)
    /\ Len(outcomes) = Len(invoked) - Cardinality(pending)
    /\ ~listChanged =>
          /\ Len(invoked) <= Len(inputFilters)
          /\ \A k \in 1..Len(invoked) : invoked[k].filter = inputFilters[k]

C3_AddAtTail ==
    Len(inputFilters') > Len(inputFilters) =>
        \E f \in FilterIds : inputFilters' = Append(inputFilters, f)

C3_Sequential ==
    [](C3_Inv) /\ [][C3_AddAtTail]_vars

\* the second of two different filters is pending after the first one's
\* promise has resolved
C3_Witness ==
    /\ pc = "await"
    /\ ~listChanged
    /\ Len(invoked) = 2
    /\ invoked[1].filter # invoked[2].filter
    /\ outcomes[1].how = "promise"
    /\ pending # {}

\* C4: an outcome of false (returned or resolved to) ends the call at that
\* filter with the return value false, and the call returns false only so.
C4_FalseCancels ==
    /\ \A k \in 1..Len(outcomes) :
          outcomes[k].v = JsFalse =>
              /\ k = Len(invoked)
              /\ pc = "returned"
              /\ returned = JsFalse
    /\ (pc = "returned" /\ returned = JsFalse) =>
          /\ Len(outcomes) > 0
          /\ outcomes[Len(outcomes)].v = JsFalse

\* a promise resolved to false at the first of two filters: the second one
\* was not invoked
C4_Witness ==
    /\ pc = "returned"
    /\ returned = JsFalse
    /\ ~listChanged
    /\ Len(inputFilters) = 2
    /\ Len(invoked) = 1
    /\ outcomes[1] = Outcome("promise", JsFalse)

\* C5 as stated: after a value of a wrong type the call goes on (it is
\* reported, the call has not failed, and it ends by returning the input).
C5_WrongTypeContinues ==
    \A k \in 1..Len(outcomes) :
        WrongType(outcomes[k].v) =>
            /\ errors # <<>>
            /\ pc \in {"await", "returned"}
            /\ pc = "returned" => returned = Str(finalInput)

\* C5 amended: a value of a wrong type is passed to error(), which throws: the
\* call fails at that filter with one message reported, nothing returned, no
\* later filter invoked, finalInput still the last valid value, UI unblocked.
C5_WrongTypeThrows ==
    \A k \in 1..Len(outcomes) :
        WrongType(outcomes[k].v) =>
            /\ k = Len(outcomes)
            /\ k = Len(invoked)
            /\ pc = "failed"
            /\ returned = None
            /\ errors = <<IF outcomes[k].v = Val("object", "then")
                          THEN PromiseMsg ELSE TypeMsg(TypeOf(outcomes[k].v))>>
            /\ finalInput = LastString(Values(k - 1), originalInput)
            /\ ~blocked

\* the first of two filters resolved to a number: the call failed there
C5_Witness ==
    /\ pc = "failed"
    /\ ~listChanged
    /\ Len(inputFilters) = 2
    /\ Len(invoked) = 1
    /\ outcomes[1] = Outcome("promise", Val("number", "7"))
    /\ errors # <<>>

\* C6: every filter is invoked with the last string an earlier filter of the
\* call produced (the original input if none), the same value in meta.input
\* and the original input in meta.original; a call that returns without a
\* false returns the last string produced, or the original input.
C6_Reduces ==
    /\ \A k \in 1..Len(invoked) :
          LET cur == LastString(Values(IF k - 1 < Len(outcomes) THEN k - 1 ELSE Len(outcomes)),
                                originalInput)
          IN  /\ invoked[k].input = cur
              /\ invoked[k].meta.input = cur
              /\ invoked[k].meta.original = originalInput
    /\ (pc = "returned" /\ returned # JsFalse) =>
          returned = Str(LastString(Values(Len(outcomes)), originalInput))

\* the first filter replaced the input, the second left it alone, and the
\* call returned the replacement
C6_Witness ==
    /\ pc = "returned"
    /\ Len(invoked) = 2
    /\ outcomes[1].v.t = "string"
    /\ outcomes[1].v.v # originalInput
    /\ outcomes[2].v \in {JsTrue, JsNull, JsUndefined}
    /\ invoked[2].input = outcomes[1].v.v
    /\ returned = outcomes[1].v

\* ---------------------------------------------------------------- queue properties
\* the sendCommand call a queueCommand( cmd, silent ) call is to end in
ExpectedCall(e) ==
    [command |-> e.cmd, silent |-> (e.silent \in {"true", "one"}), userAction |-> FALSE]

\* the sendCommand call a queue entry is to end in
EntryCall(e) == [command |-> e.cmd, silent |-> e.silent, userAction |-> FALSE]

\* the keypress.send call a queued key is to end in
ExpectedSend(key) == [keyCode |-> Head(key), force |-> TRUE]

\* the calls of a history, without who made them
Calls(h) == [k \in 1..Len(h) |-> h[k].call]

\* C7: without a clear, the commands given to queueCommand are, in order,
\* the ones submitted (each once, with the coerced silent flag and userAction
\* false) followed by the ones still in the queue.
C7_Fifo ==
    [k \in 1..Len(cmdQueued) |-> ExpectedCall(cmdQueued[k])]
        = Calls(submitted) \o [k \in 1..Len(commandQueue) |-> EntryCall(commandQueue[k])]

\* two different commands were queued, the first with a silent argument that
\* is not a boolean; an expectCommand event submitted the first
C7_Witness ==
    /\ Len(cmdQueued) = 2
    /\ cmdQueued[1].cmd # cmdQueued[2].cmd
    /\ cmdQueued[1].silent = "one"
    /\ Len(submitted) = 1
    /\ submitted[1].by = 0
    /\ submitted[1].call = [command |-> cmdQueued[1].cmd, silent |-> TRUE, userAction |-> FALSE]
    /\ Len(commandQueue) = 1

\* C8 as stated: a queueCommand( cmd, silent ) call made while the line input
\* is ready submits cmd itself, whatever the queue held; made while it is not
\* ready it submits nothing and appends cmd.
C8_OwnCommand ==
    \A cmd \in Cmds, arg \in SilentArgs :
        LET e == [cmd |-> cmd, silent |-> arg]
        IN  cmdQueued' = Append(cmdQueued, e) =>
                IF lineReady
                THEN submitted' =
                        Append(submitted, [call |-> ExpectedCall(e), by |-> Len(cmdQueued')])
                ELSE /\ submitted' = submitted
                     /\ commandQueue' = Append(commandQueue, ParserCommand(cmd, arg))

C8_HeadCommand ==
    \A cmd \in Cmds, arg \in SilentArgs :
        LET e == [cmd |-> cmd, silent |-> arg]
            pushed == Append(commandQueue, [cmd |-> cmd, silent |-> (arg \in {"true", "one"})])
        IN  cmdQueued' = Append(cmdQueued, e) =>
                IF lineReady
                THEN /\ submitted' =
                          Append(submitted, [call |-> EntryCall(Head(pushed)),
                                             by |-> Len(cmdQueued')])
                     /\ commandQueue' = Tail(pushed)
                     /\ commandQueue = <<>> => submitted'[Len(submitted')].call = ExpectedCall(e)
                ELSE /\ submitted' = submitted
                     /\ commandQueue' = pushed

C9_Inv ==
    [k \in 1..Len(keysQueued) |-> ExpectedSend(keysQueued[k])]
        = Calls(sent) \o [k \in 1..Len(keyQueue) |-> ExpectedSend(keyQueue[k])]

C9_Step ==
    /\ \A key \in Keys :
          LET pushed == Append(keyQueue, key)
          IN  keysQueued' = Append(keysQueued, key) =>
                  IF inputMode = "getkey"
                  THEN /\ sent' = Append(sent, [call |-> ExpectedSend(Head(pushed)),
                                                by |-> Len(keysQueued')])
                       /\ keyQueue' = Tail(pushed)
                  ELSE /\ sent' = sent
                       /\ keyQueue' = pushed
    /\ (keysQueued' = keysQueued /\ <<sent, keyQueue>>' # <<sent, keyQueue>>) =>
          /\ keyQueue # <<>>
          /\ sent' = Append(sent, [call |-> ExpectedSend(Head(keyQueue)), by |-> 0])
          /\ keyQueue' = Tail(keyQueue)

C10_Inv ==
    /\ [k \in 1..Len(cmdQueued) |-> ExpectedCall(cmdQueued[k])]
          = Calls(submitted) \o [k \in 1..Len(commandQueue) |-> EntryCall(commandQueue[k])]
    /\ [k \in 1..Len(keysQueued) |-> ExpectedSend(keysQueued[k])]
          = Calls(sent) \o [k \in 1..Len(keyQueue) |-> ExpectedSend(keyQueue[k])]

C10_Step ==
    /\ (cmdQueued # <<>> /\ cmdQueued' = <<>>) =>
          /\ commandQueue' = <<>>
          /\ UNCHANGED <<keyQueue, sent, keysQueued, inputFilters>>
    /\ (keysQueued # <<>> /\ keysQueued' = <<>>) =>
          /\ keyQueue' = <<>>
          /\ UNCHANGED <<commandQueue, submitted, cmdQueued, inputFilters>>

C10_Clears ==
    [](C10_Inv) /\ [][C10_Step]_vars

\* a clear dropped queued commands while a key was queued; a command queued
\* afterwards is the only one submitted, and the key is still queued
C10_Witness ==
    /\ cmdDropped
    /\ ~keysDropped
    /\ Len(cmdQueued) = 1
    /\ Len(submitted) = 1
    /\ commandQueue = <<>>
    /\ Len(keyQueue) = 1
    /\ sent = <<>>

\* ---------------------------------------------------------------- filter list properties
\* list is before without its earliest f
EarliestRemoved(list, before, f) ==
    \E k \in 1..Len(before) :
        /\ before[k] = f
        /\ \A j \in 1..(k - 1) : before[j] # f
        /\ Len(list) = Len(before) - 1
        /\ \A j \in 1..(k - 1) : list[j] = before[j]
        /\ \A j \in k..Len(list) : list[j] = before[j + 1]

\* how often f occurs in list
Count(list, f) == Cardinality({k \in 1..Len(list) : list[k] = f})

\* C11: removeInputFilter( f ) returns true exactly when f is registered and
\* then removes its earliest registration only; otherwise it returns false and
\* leaves the list alone. addInputFilter registers a filter again at the
\* tail, and a call that runs through invokes every registration once.
C11_RemoveEarliest ==
    /\ lastCall.op = "remove" =>
          IF \E k \in 1..Len(lastCall.before) : lastCall.before[k] = lastCall.f
          THEN /\ lastCall.ret = "true"
               /\ EarliestRemoved(inputFilters, lastCall.before, lastCall.f)
          ELSE /\ lastCall.ret = "false"
               /\ inputFilters = lastCall.before
    /\ lastCall.op = "add" => inputFilters = Append(lastCall.before, lastCall.f)
    /\ (pc = "returned" /\ returned # JsFalse /\ ~listChanged) =>
          [k \in 1..Len(invoked) |-> invoked[k].filter] = inputFilters

\* a filter registered first and third was removed: the first registration
\* went, the other two entries stayed in order
C11_Witness ==
    /\ lastCall.op = "remove"
    /\ lastCall.ret = "true"
    /\ Len(lastCall.before) = 3
    /\ lastCall.before[1] = lastCall.f
    /\ lastCall.before[3] = lastCall.f
    /\ lastCall.before[2] # lastCall.f
    /\ inputFilters = <<lastCall.before[2], lastCall.before[3]>>

\* C12: one expectCommand event submits at most one command: the head of a
\* non-empty queue, with userAction false, leaving the queue one shorter, and
\* the handler returns false; nothing from an empty queue.
C12_OnePerEvent ==
    /\ [](RunCommandQueue(commandQueue).ret
            = IF commandQueue # <<>> THEN "false" ELSE "undefined")
    /\ [][cmdQueued' = cmdQueued =>
            IF commandQueue = <<>>
            THEN submitted' = submitted /\ commandQueue' = <<>>
            ELSE \/ submitted' = submitted /\ commandQueue' = commandQueue
                 \/ /\ submitted' = Append(submitted,
                            [call |-> [command |-> Head(commandQueue).cmd,
                                       silent |-> Head(commandQueue).silent,
                                       userAction |-> FALSE],
                             by |-> 0])
                    /\ commandQueue' = Tail(commandQueue)
                    /\ Len(commandQueue') = Len(commandQueue) - 1]_vars

\* two commands waited in the queue; two expectCommand events submitted one
\* each and the queue is empty
C12_Witness ==
    /\ Len(cmdQueued) = 2
    /\ Len(submitted) = 2
    /\ submitted[1].by = 0
    /\ submitted[2].by = 0
    /\ ~submitted[1].call.userAction
    /\ commandQueue = <<>>

\* C13: when a filter throws or its promise rejects, applyInputFilters ends
\* with that failure and the UI is unblocked, whichever filter it is.
C13_UnblockedOnFailure == pc = "failed" => ~blocked

\* C14: a call that returns a string has invoked every filter that was
\* neither added nor removed while it ran once per registration.
C14_StableFiltersInvokedOnce ==
    (pc = "returned" /\ returned # JsFalse) =>
        \A f \in FilterIds \ touched :
            Count([k \in 1..Len(invoked) |-> invoked[k].filter], f) = Count(inputFilters, f)

\* C15 as stated: the remover called right after its addInputFilter leaves
\* the list as that addInputFilter found it; a remover that finds its filter
\* gone removes nothing.
C15_RoundTrip ==
    /\ (lastCall.op = "remover" /\ lastCall.base # <<>>) =>
          inputFilters = lastCall.base[1]
    /\ (lastCall.op = "remover" /\ Count(lastCall.before, lastCall.f) = 0) =>
          lastCall.ret = "false" /\ inputFilters = lastCall.before

\* C15: the remover removes the earliest registration of its filter. Called
\* right after its addInputFilter it leaves every filter registered as often
\* as that addInputFilter found it, and the very list only if the filter
\* was not registered before; a remover that finds its filter gone
\* removes nothing.
C15_RemovesEarliest ==
    /\ (lastCall.op = "remover" /\ lastCall.base # <<>>) =>
          /\ lastCall.ret = "true"
          /\ EarliestRemoved(inputFilters, Append(lastCall.base[1], lastCall.f), lastCall.f)
          /\ \A g \in FilterIds : Count(inputFilters, g) = Count(lastCall.base[1], g)
          /\ Count(lastCall.base[1], lastCall.f) = 0 => inputFilters = lastCall.base[1]
    /\ lastCall.op = "remover" =>
          IF Count(lastCall.before, lastCall.f) = 0
          THEN lastCall.ret = "false" /\ inputFilters = lastCall.before
          ELSE lastCall.ret = "true"
               /\ EarliestRemoved(inputFilters, lastCall.before, lastCall.f)

\* a filter registered before another one was registered again and its
\* remover called at once: the other filter now comes first
C15_Witness ==
    /\ lastCall.op = "remover"
    /\ Len(lastCall.base) = 1
    /\ Len(lastCall.base[1]) = 2
    /\ lastCall.base[1][1] = lastCall.f
    /\ lastCall.base[1][2] # lastCall.f
    /\ inputFilters = <<lastCall.base[1][2], lastCall.f>>

\* C16: with the listeners registered, no clear and the engine firing
\* expectCommand (expectKeypress) again and again, the k-th queued command
\* (key) is eventually submitted (sent).
C16_EventuallySubmitted ==
    /\ \A k \in 1..MaxCmds :
          (listening /\ Len(cmdQueued) >= k)
              ~> (Len(submitted) >= k /\ submitted[k].call = ExpectedCall(cmdQueued[k]))
    /\ \A k \in 1..MaxKeys :
          (listening /\ Len(keysQueued) >= k)
              ~> (Len(sent) >= k /\ sent[k].call = ExpectedSend(keysQueued[k]))

\* two commands and a key waited in their queues and the listeners have
\* submitted and sent all of them
C16_Witness ==
    /\ listening
    /\ Len(cmdQueued) = 2
    /\ Len(submitted) = 2
    /\ submitted[1].by = 0
    /\ submitted[2].by = 0
    /\ Len(keysQueued) >= 1
    /\ Len(sent) = Len(keysQueued)
    /\ sent[1].by = 0

\* the variables only the command side, only the key side and only a running
\* applyInputFilters call write
commandSide == <<commandQueue, submitted, cmdQueued, cmdDropped>>
keySide == <<keyQueue, sent, keysQueued, keysDropped>>
callSide == <<blocked, pc, i, originalInput, finalInput, returned, errors,
              invoked, outcomes, pending>>

\* C17: a step of the command queue changes neither the key queue nor the
\* filter list, a step of the key queue neither the command queue nor the
\* filter list, a step of the filters neither queue, and a step of
\* applyInputFilters leaves the filter list as it is.
C17_Frame ==
    [][/\ commandSide' # commandSide => UNCHANGED <<keyQueue, inputFilters>>
       /\ keySide' # keySide => UNCHANGED <<commandQueue, inputFilters>>
       /\ filterVars' # filterVars => UNCHANGED <<commandQueue, keyQueue>>
       /\ callSide' # callSide => UNCHANGED inputFilters]_vars

\* a call has run through two filters while a command and a key have been
\* submitted and sent by the listeners and a second command and key wait
C17_Witness ==
    /\ Len(inputFilters) = 2
    /\ pc = "returned"
    /\ Len(invoked) = 2
    /\ Len(submitted) = 1
    /\ submitted[1].by = 0
    /\ Len(commandQueue) = 1
    /\ Len(sent) = 1
    /\ sent[1].by = 0
    /\ Len(keyQueue) = 1

====
